---- MODULE Spec2Model ----
(***************************************************************************)
(* Task execution pipeline of the A2A LangGraph agent:                     *)
(*   backend/agent_executor.py   A2AAgentExecutor (validation, metrics,    *)
(*                               event emission)                           *)
(*   backend/agents/agent.py     LangGraphAgent.stream (cache lookup,      *)
(*                               progress items, web-search fallback,      *)
(*                               cache store)                              *)
(*   backend/data/cache_manager.py  CacheManager (TTL, oldest-eviction)    *)
(*   backend/tools/web_search_tool.py  web_search                          *)
(*   backend/data/vector_store.py   VectorStore.search                     *)
(*                                                                         *)
(* Text is modelled as a sequence of non-empty tokens, so that the empty   *)
(* string is <<>> and Python truthiness of a string is "the sequence is    *)
(* not empty".  Request text and error text are sequences of characters,   *)
(* because the code measures and slices them.  Confidence is in            *)
(* hundredths (100 = 1.0).  Time is an integer clock.                      *)
(***************************************************************************)
EXTENDS Integers, Sequences, FiniteSets, TLC

VARIABLES
    settings,             \* backend.core.config.settings (fixed after start)
    hashseed,             \* the process's string-hash seed (fixed after start)
    now,                  \* time.time()
    cache,                \* CacheManager.cache, in dict insertion order
    performance_metrics,  \* A2AAgentExecutor.performance_metrics
    pc,                   \* per task: where its execute()/stream() stands
    request,              \* per task: the RequestContext of the running call
    events,               \* per task: what the call put on its EventQueue
    agent,                \* per task: the locals of LangGraphAgent.stream
    yielded,              \* per task: the items stream() has yielded
    trace,                \* per task: collaborator calls made, in order
    outcome,              \* per task: how execute() ended
    holder,               \* the task whose step the event-loop thread is in, or 0
    cancelled,            \* per task: how the last cancel() for it ended
    cache_call,           \* per caller: its call of CacheManager, and the result
    search_call,          \* the last VectorStore.search: the index's answer, the result
    collection,           \* VectorStore.collection: the documents stored, in order
    add_call,             \* the last VectorStore.add_documents, and where it stands
    rag_call              \* the last rag_search, with the search it made

vars == <<settings, hashseed, now, cache, performance_metrics, pc, request,
          events, agent, yielded, trace, outcome, holder, cancelled, cache_call,
          search_call, collection, add_call, rag_call>>

----------------------------------------------------------------------------
(* Bounds of the model *)

MaxRequests == 2      \* execute() calls per run
MaxToolCalls == 1     \* tool calls the reasoning oracle makes per task
MaxTime == 1          \* the clock stops here
cache_ttl == 1        \* settings.cache_ttl, in clock ticks
max_context_length == 4   \* settings.max_context_length, in characters
SmallMaxSize == 2     \* stands for CacheManager.max_size in the cache's own runs
SmallBatch == 1       \* stands for the purge batch in the cache's own runs
MaxHits == 3          \* n_results of a vector search

(* Program constants *)

max_size == 1000          \* CacheManager.max_size
eviction_batch == 100     \* sorted(...)[:100] in CacheManager.set
fallback_max_results == 3 \* web_search.invoke({... "max_results": 3})
sources_limit == 3        \* [...][:3] in the synthesized answer
error_summary_limit == 100  \* str(e)[:100]
shown_sources_limit == 2  \* sources[:2] in the metadata line

Tasks == {1, 2}
SeqTasks == {1}
Contexts == {"ctx1", "ctx2"}

----------------------------------------------------------------------------
(* Sequences *)

Take(s, n) == SubSeq(s, 1, IF n < Len(s) THEN n ELSE Len(s))

RECURSIVE SelectLinks(_)
SelectLinks(rs) ==
    IF rs = <<>> THEN <<>>
    ELSE IF Head(rs).link # ""
         THEN <<Head(rs).link>> \o SelectLinks(Tail(rs))
         ELSE SelectLinks(Tail(rs))

RECURSIVE SeqToSet(_)
SeqToSet(s) == IF s = <<>> THEN {} ELSE {Head(s)} \cup SeqToSet(Tail(s))

(* str.strip(): drop leading and trailing whitespace *)
IsSpace(c) == c = " "

RECURSIVE LStrip(_)
LStrip(s) == IF s # <<>> /\ IsSpace(Head(s)) THEN LStrip(Tail(s)) ELSE s

RECURSIVE RStrip(_)
RStrip(s) ==
    IF s # <<>> /\ IsSpace(s[Len(s)]) THEN RStrip(SubSeq(s, 1, Len(s) - 1)) ELSE s

Strip(s) == RStrip(LStrip(s))

----------------------------------------------------------------------------
(* Requests *)

QueryA == <<"a", "b">>
QueryB == <<" ", "c", "d">>
TooLong == [i \in 1..(max_context_length + 1) |-> "a"]

ValidQueries == {QueryA, QueryB}
Queries == ValidQueries \cup {<<>>, <<" ", " ">>, <<" ", "a", " ">>, TooLong}

(* _validate_request measuring the text as it came *)
_validate_request_unstripped(user_input) ==
    \/ user_input = <<>> \/ Len(user_input) < 2
    \/ Len(user_input) > max_context_length

(* A2AAgentExecutor._validate_request: TRUE means the request is rejected *)
_validate_request(user_input) ==
    \/ user_input = <<>> \/ Len(Strip(user_input)) < 2
    \/ Len(user_input) > max_context_length

(* hash(query): a per-process function of the text; distinct texts may collide *)
HashSeeds == {"spread", "collide"}

Hash(seed, query) ==
    IF seed = "collide" THEN 0
    ELSE IF query = QueryA THEN 1 ELSE IF query = QueryB THEN 2 ELSE Len(query) + 3

(* f"query:{hash(query)}:{sessionId}" *)
CacheKey(seed, query, sessionId) == <<"query", Hash(seed, query), sessionId>>

----------------------------------------------------------------------------
(* Text *)

Text(s) == IF s = "" THEN <<>> ELSE <<s>>

PhraseRag == "Searching product database with vector similarity..."
PhraseWeb == "Searching web for current information..."
PhraseShop == "Retrieving shop information..."
PhraseFallback == "No exact match in database. Searching the web for the latest information..."
PhraseProcessed == "Response processed successfully."
PhraseInvalid == "The agent failed to generate a valid response."
PhraseNoWebInfo == "Khong tim thay thong tin phu hop tren web."
PhraseNoWebAccess == "Khong the truy cap cong cu tim kiem web luc nay."
PhraseSourcePrefix == "\n\nNguon: "
PhraseSorry == "Xin loi, da xay ra loi khi xu ly yeu cau cua ban. Vui long thu lai sau."

----------------------------------------------------------------------------
(* The items LangGraphAgent.stream yields: one dict shape for all of them.  *)
(* has_tools_used says whether the dict has the key 'tools_used'; tool_used *)
(* is "" on items that are not progress items.                              *)

Item(tc, rui, content, conf, srcs, fc, pt, htu, tu, tool) ==
    [is_task_complete |-> tc, require_user_input |-> rui, content |-> content,
     confidence |-> conf, sources |-> srcs, from_cache |-> fc,
     processing_time |-> pt, has_tools_used |-> htu, tools_used |-> tu,
     tool_used |-> tool]

NoItem == Item(FALSE, FALSE, <<>>, 0, <<>>, FALSE, 0, FALSE, {}, "")

ProgressItem(phrase, tool) ==
    Item(FALSE, FALSE, <<phrase>>, 0, <<>>, FALSE, 0, FALSE, {}, tool)

KnownTools == {"rag_search", "web_search", "shop_information_rag"}
ToolNames == KnownTools \cup {"other_tool"}

ToolPhrase(tool_name) ==
    IF tool_name = "rag_search" THEN PhraseRag
    ELSE IF tool_name = "web_search" THEN PhraseWeb
    ELSE PhraseShop

IsProgress(item) == ~item.is_task_complete /\ ~item.require_user_input

----------------------------------------------------------------------------
(* The reasoning oracle's structured response (ResponseFormat), or none *)

Response(status, message, confidence, srcs) ==
    [valid |-> TRUE, status |-> status, message |-> Text(message),
     confidence |-> confidence, sources |-> srcs]

NoResponse ==
    [valid |-> FALSE, status |-> "none", message |-> <<>>, confidence |-> 0,
     sources |-> <<>>]

OracleResponses ==
    { Response("completed", "answer", 90, <<"vector_db">>),
      Response("input_required", "which model?", 40, <<"vector_db">>),
      Response("input_required", "", 0, <<>>),
      Response("error", "tool failed", 70, <<"vector_db">>),
      NoResponse }

OracleFaults == { <<"b", "o", "o", "m">>,
                  [i \in 1..(error_summary_limit + 1) |-> "x"] }

(* get_agent_response with the error branch keeping the oracle's confidence *)
(* and sources                                                              *)
get_agent_response_error_as_given(structured_response) ==
    LET base == Item(TRUE, FALSE, <<PhraseProcessed>>, 100, <<>>, FALSE, 0,
                     FALSE, {}, "")
    IN  IF structured_response.valid
        THEN IF structured_response.status \in {"input_required", "error"}
             THEN [base EXCEPT !.is_task_complete = FALSE,
                               !.require_user_input = TRUE,
                               !.content = structured_response.message,
                               !.confidence = structured_response.confidence,
                               !.sources = structured_response.sources]
             ELSE [base EXCEPT !.is_task_complete = TRUE,
                               !.require_user_input = FALSE,
                               !.content = structured_response.message,
                               !.confidence = structured_response.confidence,
                               !.sources = structured_response.sources]
        ELSE [base EXCEPT !.content = <<PhraseInvalid>>]

(* LangGraphAgent.get_agent_response *)
get_agent_response(structured_response) ==
    LET base == Item(TRUE, FALSE, <<PhraseProcessed>>, 100, <<>>, FALSE, 0,
                     FALSE, {}, "")
    IN  IF structured_response.valid
        THEN IF structured_response.status = "input_required"
             THEN [base EXCEPT !.is_task_complete = FALSE,
                               !.require_user_input = TRUE,
                               !.content = structured_response.message,
                               !.confidence = structured_response.confidence,
                               !.sources = structured_response.sources]
             ELSE IF structured_response.status = "error"
             THEN [base EXCEPT !.is_task_complete = FALSE,
                               !.require_user_input = TRUE,
                               !.content = structured_response.message,
                               !.confidence = 0,
                               !.sources = <<>>]
             ELSE [base EXCEPT !.is_task_complete = TRUE,
                               !.require_user_input = FALSE,
                               !.content = structured_response.message,
                               !.confidence = structured_response.confidence,
                               !.sources = structured_response.sources]
        ELSE [base EXCEPT !.content = <<PhraseInvalid>>]

----------------------------------------------------------------------------
(* backend/tools/web_search_tool.py *)

WebResult(title, snippet, link, source) ==
    [title |-> title, snippet |-> snippet, link |-> link, source |-> source]

Unavailable(reason) == <<WebResult("Web Search Unavailable", reason, "", "system")>>

Organic(snippet, link) == [title |-> "t", snippet |-> snippet, link |-> link]

(* what the search API can answer: status 200 with organic results, another *)
(* status, or a transport fault                                             *)
HttpOutcomes ==
    { [kind |-> "ok", status |-> 200, organic |-> <<>>],
      [kind |-> "ok", status |-> 200,
       organic |-> <<Organic("iPhone 15 info", "http://x")>>],
      [kind |-> "ok", status |-> 200, organic |-> <<Organic("no link", "")>>],
      [kind |-> "ok", status |-> 200, organic |-> <<Organic("", "")>>],
      [kind |-> "ok", status |-> 200,
       organic |-> <<Organic("s1", "http://1"), Organic("s2", ""),
                     Organic("s3", "http://3"), Organic("s4", "http://4")>>],
      [kind |-> "status", status |-> 403, organic |-> <<>>],
      [kind |-> "status", status |-> 500, organic |-> <<>>],
      [kind |-> "fault", status |-> 0, organic |-> <<>>] }

FormatResults(results) ==
    [i \in 1..Len(results) |->
        WebResult(results[i].title, results[i].snippet, results[i].link,
                  "web_search")]

web_search(cfg, query, max_results, http) ==
    IF ~cfg.serper_api_key \/ ~cfg.enable_web_search
    THEN Unavailable("Web search is currently disabled or API key not configured.")
    ELSE IF http.kind = "fault" THEN <<>>
    ELSE IF http.status = 200 THEN FormatResults(Take(http.organic, max_results))
    ELSE IF http.status = 403
         THEN Unavailable("API forbidden (403). Check SERPER_API_KEY or quota.")
         ELSE Unavailable("HTTP error from search API.")

----------------------------------------------------------------------------
(* backend/data/cache_manager.py.  The dict is a sequence of entries in     *)
(* insertion order; a value is the dict object the agent stored.            *)

Entry(key, value, timestamp, ttl) ==
    [key |-> key, value |-> value, timestamp |-> timestamp, ttl |-> ttl]

KeyIndex(c, key) ==
    IF \E i \in 1..Len(c) : c[i].key = key
    THEN CHOOSE i \in 1..Len(c) : c[i].key = key
    ELSE 0

RemoveAt(c, i) == SubSeq(c, 1, i - 1) \o SubSeq(c, i + 1, Len(c))

(* CacheGet returning an entry at the instant its ttl has run out *)
CacheGet_inclusive(c, key, t) ==
    LET i == KeyIndex(c, key)
    IN  IF i = 0 THEN [found |-> FALSE, value |-> NoItem, cache |-> c]
        ELSE IF t - c[i].timestamp <= c[i].ttl
             THEN [found |-> TRUE, value |-> c[i].value, cache |-> c]
             ELSE [found |-> FALSE, value |-> NoItem, cache |-> RemoveAt(c, i)]

(* CacheManager.get: the value or absent, and the dict afterwards *)
CacheGet(c, key, t) ==
    LET i == KeyIndex(c, key)
    IN  IF i = 0 THEN [found |-> FALSE, value |-> NoItem, cache |-> c]
        ELSE IF t - c[i].timestamp < c[i].ttl
             THEN [found |-> TRUE, value |-> c[i].value, cache |-> c]
             ELSE [found |-> FALSE, value |-> NoItem, cache |-> RemoveAt(c, i)]

(* SortedIndexes with the newest entries first *)
RECURSIVE SortedIndexes_newest_first(_, _)
SortedIndexes_newest_first(c, left) ==
    IF left = {} THEN <<>>
    ELSE LET m == CHOOSE i \in left :
                    \A j \in left :
                        \/ c[i].timestamp > c[j].timestamp
                        \/ c[i].timestamp = c[j].timestamp /\ i <= j
         IN  <<m>> \o SortedIndexes_newest_first(c, left \ {m})

(* sorted(self.cache.keys(), key=timestamp): stable, so ties keep dict order *)
RECURSIVE SortedIndexes(_, _)
SortedIndexes(c, left) ==
    IF left = {} THEN <<>>
    ELSE LET m == CHOOSE i \in left :
                    \A j \in left :
                        \/ c[i].timestamp < c[j].timestamp
                        \/ c[i].timestamp = c[j].timestamp /\ i <= j
         IN  <<m>> \o SortedIndexes(c, left \ {m})

RECURSIVE Keep(_, _, _)
Keep(c, i, drop) ==
    IF i > Len(c) THEN <<>>
    ELSE (IF i \in drop THEN <<>> ELSE <<c[i]>>) \o Keep(c, i + 1, drop)

(* CacheSetWith purging only once the dict is over its capacity *)
CacheSetWith_over(c, key, value, ttl, t, cap, batch) ==
    LET oldest == IF Len(c) > cap
                  THEN SeqToSet(Take(SortedIndexes(c, 1..Len(c)), batch))
                  ELSE {}
        kept == Keep(c, 1, oldest)
        i == KeyIndex(kept, key)
    IN  IF i = 0 THEN Append(kept, Entry(key, value, t, ttl))
        ELSE [kept EXCEPT ![i] = Entry(key, value, t, ttl)]

(* CacheManager.set with the capacity and the purge batch as parameters *)
CacheSetWith(c, key, value, ttl, t, cap, batch) ==
    LET oldest == IF Len(c) >= cap
                  THEN SeqToSet(Take(SortedIndexes(c, 1..Len(c)), batch))
                  ELSE {}
        kept == Keep(c, 1, oldest)
        i == KeyIndex(kept, key)
    IN  IF i = 0 THEN Append(kept, Entry(key, value, t, ttl))
        ELSE [kept EXCEPT ![i] = Entry(key, value, t, ttl)]

CacheSet(c, key, value, ttl, t) ==
    CacheSetWith(c, key, value, ttl, t, max_size, eviction_batch)

(* CacheManager.clear *)
CacheClear(c) == <<>>

----------------------------------------------------------------------------
(* The events a call puts on its EventQueue through TaskUpdater *)

Event(kind, state, final, text, meta, err) ==
    [kind |-> kind, state |-> state, final |-> final, text |-> text,
     meta |-> meta, err |-> err]

TaskEvent == Event("task", "submitted", FALSE, <<>>, <<>>, <<>>)

(* updater.update_status(state, new_agent_text_message(text), final=final) *)
StatusEvent(state, text, final) == Event("status", state, final, text, <<>>, <<>>)

(* updater.add_artifact([Part(TextPart(text))], name='agent_response') *)
ArtifactEvent(text, meta) == Event("artifact", "", FALSE, text, meta, <<>>)

(* updater.complete() *)
CompleteEvent == Event("status", "completed", TRUE, <<>>, <<>>, <<>>)

Meta(tag, num, srcs) == [tag |-> tag, num |-> num, srcs |-> srcs]

(* A2AAgentExecutor._process_final_result *)
_process_final_result(result) ==
    LET metadata_parts ==
            (IF result.confidence # 0
             THEN <<Meta("confidence", result.confidence, <<>>)>> ELSE <<>>)
            \o (IF result.sources # <<>>
                THEN <<Meta("sources", 0,
                            Take(Take(result.sources, sources_limit),
                                 shown_sources_limit))>>
                ELSE <<>>)
            \o (IF result.from_cache THEN <<Meta("from_cache", 0, <<>>)>> ELSE <<>>)
            \o (IF result.processing_time # 0
                THEN <<Meta("processing_time", result.processing_time, <<>>)>>
                ELSE <<>>)
    IN  <<ArtifactEvent(result.content, metadata_parts), CompleteEvent>>

(* A2AAgentExecutor._process_stream_item: the events one item causes *)
_process_stream_item(item) ==
    IF ~item.is_task_complete /\ ~item.require_user_input
    THEN <<StatusEvent("working", item.content, FALSE)>>
    ELSE IF item.require_user_input
    THEN <<StatusEvent("input_required", item.content, TRUE),
           ArtifactEvent(item.content, <<>>),
           CompleteEvent>>
    ELSE _process_final_result(item)

(* ErrorEvent carrying the whole of str(e) *)
ErrorEvent_untruncated(e) ==
    Event("status", "input_required", TRUE, <<PhraseSorry>>, <<>>, e)

(* the except branch of execute(): one final input_required status carrying *)
(* str(e)[:100]                                                             *)
ErrorEvent(e) ==
    Event("status", "input_required", TRUE, <<PhraseSorry>>, <<>>,
          Take(e, error_summary_limit))

----------------------------------------------------------------------------
(* LangGraphAgent.stream: the pieces of its body *)

AgentLocals ==
    [start_time |-> 0, tool_calls_made |-> <<>>, msg_calls |-> <<>>,
     to_exec |-> <<>>, final_result |-> NoItem, cached_result |-> NoItem,
     structured_response |-> NoResponse, original_result |-> NoItem,
     web_status |-> "none", web_results |-> <<>>]

RequestContext(query, context_id, has_task, start_time) ==
    [query |-> query, context_id |-> context_id, has_task |-> has_task,
     start_time |-> start_time]

NoRequest == RequestContext(<<>>, "", FALSE, 0)

Call(op, tool, query, num) == [op |-> op, tool |-> tool, query |-> query, num |-> num]

(* HitItem without the from_cache mark *)
HitItem_unmarked(cached_result, processing_time) ==
    [cached_result EXCEPT !.processing_time = processing_time]

(* the cache-hit branch: the stored dict itself is updated and yielded *)
HitItem(cached_result, processing_time) ==
    [cached_result EXCEPT !.from_cache = TRUE, !.processing_time = processing_time]

(* ShouldEscalate without the configuration test *)
ShouldEscalate_unconfigured(cfg, final_result) ==
    /\ final_result.is_task_complete = FALSE
    /\ final_result.require_user_input = TRUE

(* the condition of the web-search fallback *)
ShouldEscalate(cfg, final_result) ==
    /\ final_result.is_task_complete = FALSE
    /\ final_result.require_user_input = TRUE
    /\ cfg.enable_web_search

(* SynthesizeFromWeb without the filter on empty links *)
SynthesizeFromWeb_unfiltered(web_results) ==
    LET top == web_results[1]
        synthesized == IF top.link # ""
                       THEN Text(top.snippet) \o <<PhraseSourcePrefix, top.link>>
                       ELSE Text(top.snippet)
    IN  Item(TRUE, FALSE,
             IF synthesized # <<>> THEN synthesized ELSE <<PhraseNoWebInfo>>,
             60,
             Take([i \in 1..Len(web_results) |-> web_results[i].link], sources_limit),
             FALSE, 0, FALSE, {}, "")

(* the answer synthesized from a non-empty result list *)
SynthesizeFromWeb(web_results) ==
    LET top == web_results[1]
        synthesized == IF top.link # ""
                       THEN Text(top.snippet) \o <<PhraseSourcePrefix, top.link>>
                       ELSE Text(top.snippet)
    IN  Item(TRUE, FALSE,
             IF synthesized # <<>> THEN synthesized ELSE <<PhraseNoWebInfo>>,
             60, Take(SelectLinks(web_results), sources_limit), FALSE, 0,
             FALSE, {}, "")

(* KeepOriginalAsCompleted keeping the sources of the original *)
KeepOriginalAsCompleted_sourced(final_result) ==
    Item(TRUE, FALSE,
         IF final_result.content # <<>> THEN final_result.content
         ELSE <<PhraseNoWebAccess>>,
         50, final_result.sources, FALSE, 0, FALSE, {}, "")

(* the answer kept when the result list is empty *)
KeepOriginalAsCompleted(final_result) ==
    Item(TRUE, FALSE,
         IF final_result.content # <<>> THEN final_result.content
         ELSE <<PhraseNoWebAccess>>,
         50, <<>>, FALSE, 0, FALSE, {}, "")

(* ShouldCache without the test on the answer *)
ShouldCache_any(cfg, final_result) == cfg.enable_caching

(* the condition of the cache store *)
ShouldCache(cfg, final_result) == cfg.enable_caching /\ final_result.is_task_complete

FirstKnown(calls) ==
    IF \E i \in 1..Len(calls) : calls[i] \in KnownTools
    THEN CHOOSE i \in 1..Len(calls) :
            /\ calls[i] \in KnownTools
            /\ \A j \in 1..(i - 1) : calls[j] \notin KnownTools
    ELSE 0

RECURSIVE KnownOf(_)
KnownOf(calls) ==
    IF calls = <<>> THEN <<>>
    ELSE (IF Head(calls) \in KnownTools THEN <<Head(calls)>> ELSE <<>>)
         \o KnownOf(Tail(calls))

(* the tool calls one AI message can carry: at least one of them known *)
Messages(tools, budget) ==
    { m \in UNION { [1..n -> tools] : n \in 1..(IF budget < 2 THEN budget ELSE 2) } :
        FirstKnown(m) # 0 }

OtherCalls(n) == [i \in 1..n |-> "other_tool"]

ExecCalls(calls) == [i \in 1..Len(calls) |-> Call("tool_exec", calls[i], <<>>, 0)]

----------------------------------------------------------------------------
(* What the surroundings of the pipeline can do in a run: the requests that *)
(* arrive, and what the reasoning oracle, the search API and the tool       *)
(* wrapper answer.  CallEnv is one execute() call against every answer of   *)
(* the collaborators; ServiceEnv is a sequence of calls on one executor     *)
(* against fewer answers.                                                   *)

InvokeFault == [kind |-> "raise", status |-> 0, organic |-> <<>>]

Settings == [enable_web_search : BOOLEAN, enable_caching : BOOLEAN,
             serper_api_key : BOOLEAN]

CallEnv ==
    [again |-> FALSE,
     queries |-> Queries \ {QueryB},
     contexts |-> {"ctx1"},
     has_task |-> BOOLEAN,
     tools |-> ToolNames,
     responses |-> OracleResponses,
     faults |-> OracleFaults,
     http |-> HttpOutcomes \cup {InvokeFault}]

ServiceEnv ==
    [again |-> TRUE,
     queries |-> Queries,
     contexts |-> Contexts,
     has_task |-> {FALSE},
     tools |-> {"rag_search"},
     responses |-> { Response("completed", "answer", 90, <<"vector_db">>),
                     Response("input_required", "which model?", 40, <<"vector_db">>) },
     faults |-> { <<"b", "o", "o", "m">> },
     http |-> { [kind |-> "ok", status |-> 200,
                 organic |-> <<Organic("iPhone 15 info", "http://x")>>] }]

ServiceSettings == { cfg \in Settings : cfg.enable_caching /\ cfg.serper_api_key }

----------------------------------------------------------------------------
(* The callers of the cache and of the vector index, before any call *)

CacheCall(op, key, value, ttl) ==
    [op |-> op, key |-> key, value |-> value, ttl |-> ttl, state |-> "called",
     found |-> FALSE, result |-> NoItem]

NoCacheCall == [CacheCall("none", "", NoItem, 0) EXCEPT !.state = "idle"]

NoSearch == [answer |-> <<>>, has_distances |-> FALSE, raised |-> FALSE,
             results |-> <<>>, done |-> FALSE]

NoAdd == [state |-> "idle", documents |-> <<>>, batch_size |-> 0, i |-> 0,
          total_added |-> 0, batches |-> <<>>, before |-> <<>>, cause |-> "none"]

NoRag == [done |-> FALSE, query |-> "", provider_fault |-> FALSE,
          length |-> 0, expected |-> 0,
          embedding_raised |-> FALSE, query_raised |-> FALSE,
          format_raised |-> FALSE, search_raised |-> FALSE, results |-> <<>>,
          raised |-> FALSE, value |-> <<>>]

----------------------------------------------------------------------------
(* State after construction *)

InitWith(configurations, seeds) ==
    /\ settings \in configurations
    /\ hashseed \in seeds
    /\ now = 0
    /\ cache = <<>>
    /\ performance_metrics =
          [total_requests |-> 0, successful_requests |-> 0, failed_requests |-> 0,
           total_response_time |-> 0, cache_hits |-> 0, cache_misses |-> 0]
    /\ pc = [t \in Tasks |-> "idle"]
    /\ request = [t \in Tasks |-> NoRequest]
    /\ events = [t \in Tasks |-> <<>>]
    /\ agent = [t \in Tasks |-> AgentLocals]
    /\ yielded = [t \in Tasks |-> <<>>]
    /\ trace = [t \in Tasks |-> <<>>]
    /\ outcome = [t \in Tasks |-> "none"]
    /\ holder = 0
    /\ cancelled = [t \in Tasks |-> "none"]
    /\ cache_call = [t \in Tasks |-> NoCacheCall]
    /\ search_call = NoSearch
    /\ collection = <<>>
    /\ add_call = NoAdd
    /\ rag_call = NoRag

Init == InitWith(ServiceSettings, HashSeeds)

CallInit == InitWith(Settings, {"spread"})

cache_key(t) == CacheKey(hashseed, request[t].query, request[t].context_id)

----------------------------------------------------------------------------
(* time passes *)
Tick ==
    /\ now < MaxTime
    /\ now' = now + 1
    /\ UNCHANGED <<holder, cancelled, cache_call, search_call, collection, add_call,
                   rag_call, settings, hashseed,
                   cache, performance_metrics, pc, request, events, agent,
                   yielded, trace, outcome>>

(* A2AAgentExecutor.execute, from its entry to the first await: count the   *)
(* request, validate, and create the task when the context has none         *)
Execute(t, env) ==
    /\ holder = 0
    /\ \/ pc[t] = "idle"
       \/ env.again /\ pc[t] = "ended"
    /\ performance_metrics.total_requests < MaxRequests
    /\ \E query \in env.queries, context_id \in env.contexts,
          has_task \in env.has_task :
        LET error == _validate_request(query)
        IN  /\ request' = [request EXCEPT
                              ![t] = RequestContext(query, context_id, has_task, now)]
            /\ performance_metrics' =
                  [performance_metrics EXCEPT
                      !.total_requests = @ + 1,
                      !.failed_requests = IF error THEN @ + 1 ELSE @]
            /\ pc' = [pc EXCEPT ![t] = IF error THEN "ended" ELSE "started"]
            /\ outcome' = [outcome EXCEPT
                              ![t] = IF error THEN "InvalidParamsError" ELSE "none"]
            /\ events' = [events EXCEPT
                             ![t] = IF ~error /\ ~has_task THEN <<TaskEvent>> ELSE <<>>]
            /\ agent' = [agent EXCEPT ![t] = AgentLocals]
            /\ yielded' = [yielded EXCEPT ![t] = <<>>]
            /\ trace' = [trace EXCEPT ![t] = <<>>]
    /\ UNCHANGED <<holder, cancelled, cache_call, search_call, collection, add_call,
                   rag_call, settings, hashseed,
                   now, cache>>

(* stream() yields item and execute() hands it to _process_stream_item *)
YieldItem(t, item, next_pc) ==
    /\ yielded' = [yielded EXCEPT ![t] = Append(@, item)]
    /\ events' = [events EXCEPT ![t] = @ \o _process_stream_item(item)]
    /\ pc' = [pc EXCEPT ![t] = next_pc]
    /\ holder' = 0
    /\ UNCHANGED <<cancelled, cache_call, search_call, collection, add_call,
                   rag_call, settings, hashseed, now,
                   request, performance_metrics, outcome>>

(* the end of stream(): store the answer when it is complete, and yield it *)
EmitFinal(t, a, c, tr) ==
    LET final_result == a.final_result
        store == ShouldCache(settings, final_result)
    IN  /\ agent' = [agent EXCEPT ![t] = a]
        /\ cache' = IF store
                    THEN CacheSet(c, cache_key(t), final_result, cache_ttl, now)
                    ELSE c
        /\ trace' = [trace EXCEPT
                        ![t] = IF store
                               THEN Append(tr, Call("cache_set", "", <<>>, 0))
                               ELSE tr]
        /\ YieldItem(t, final_result, "final")

(* graph.stream is exhausted: read the oracle's answer and decide on the    *)
(* web-search fallback                                                      *)
Finish(t, a, c, tr, structured_response) ==
    LET final_result ==
            [get_agent_response(structured_response) EXCEPT
                !.processing_time = now - a.start_time,
                !.has_tools_used = TRUE,
                !.tools_used = SeqToSet(a.tool_calls_made)]
        a1 == [a EXCEPT !.structured_response = structured_response,
                        !.final_result = final_result,
                        !.original_result = final_result]
    IN  IF ShouldEscalate(settings, final_result)
        THEN /\ agent' = [agent EXCEPT
                             ![t] = [a1 EXCEPT !.tool_calls_made =
                                                   Append(@, "web_search")]]
             /\ cache' = c
             /\ trace' = [trace EXCEPT ![t] = tr]
             /\ YieldItem(t, ProgressItem(PhraseFallback, "web_search"), "fallback")
        ELSE EmitFinal(t, a1, c, tr)

(* Fault without the final event *)
Fault_silent(t, a, c, tr, e) ==
    /\ agent' = [agent EXCEPT ![t] = a]
    /\ cache' = c
    /\ trace' = [trace EXCEPT ![t] = tr]
    /\ performance_metrics' =
          [performance_metrics EXCEPT !.failed_requests = @ + 1]
    /\ pc' = [pc EXCEPT ![t] = "ended"]
    /\ outcome' = [outcome EXCEPT ![t] = "InternalError"]
    /\ holder' = 0
    /\ UNCHANGED <<cancelled, cache_call, search_call, collection, add_call,
                   rag_call, settings, hashseed, now,
                   request, yielded, events>>

(* a fault leaves stream(): the except branch of execute() *)
Fault(t, a, c, tr, e) ==
    /\ agent' = [agent EXCEPT ![t] = a]
    /\ cache' = c
    /\ trace' = [trace EXCEPT ![t] = tr]
    /\ performance_metrics' =
          [performance_metrics EXCEPT !.failed_requests = @ + 1]
    /\ events' = [events EXCEPT ![t] = Append(@, ErrorEvent(e))]
    /\ pc' = [pc EXCEPT ![t] = "ended"]
    /\ outcome' = [outcome EXCEPT ![t] = "InternalError"]
    /\ holder' = 0
    /\ UNCHANGED <<cancelled, cache_call, search_call, collection, add_call,
                   rag_call, settings, hashseed, now,
                   request, yielded>>

(* the loop over graph.stream, from where it stands to its next yield, to   *)
(* its end or to a fault of the oracle                                      *)
RunGraph(t, a, c, tr, env) ==
    LET k == FirstKnown(a.msg_calls)
    IN  IF k # 0
        THEN /\ agent' = [agent EXCEPT
                             ![t] = [a EXCEPT
                                        !.tool_calls_made =
                                            @ \o SubSeq(a.msg_calls, 1, k),
                                        !.msg_calls =
                                            SubSeq(a.msg_calls, k + 1,
                                                   Len(a.msg_calls))]]
             /\ cache' = c
             /\ trace' = [trace EXCEPT ![t] = tr]
             /\ YieldItem(t, ProgressItem(ToolPhrase(a.msg_calls[k]),
                                          a.msg_calls[k]), "graph")
        ELSE LET made == a.tool_calls_made \o a.msg_calls
                 tr1 == (tr \o ExecCalls(a.to_exec))
                        \o <<Call("oracle", "", <<>>, 0)>>
                 budget == MaxToolCalls - Len(made)
                 others == IF "other_tool" \in env.tools THEN 0..budget ELSE {0}
             IN  \E n \in others :
                    LET a1 == [a EXCEPT !.tool_calls_made = made \o OtherCalls(n),
                                        !.msg_calls = <<>>,
                                        !.to_exec = <<>>]
                    IN  \/ \E m \in Messages(env.tools, budget - n) :
                              LET k2 == FirstKnown(m)
                              IN  /\ agent' =
                                        [agent EXCEPT
                                            ![t] = [a1 EXCEPT
                                                       !.tool_calls_made =
                                                           @ \o SubSeq(m, 1, k2),
                                                       !.msg_calls =
                                                           SubSeq(m, k2 + 1, Len(m)),
                                                       !.to_exec = KnownOf(m)]]
                                  /\ cache' = c
                                  /\ trace' = [trace EXCEPT ![t] = tr1]
                                  /\ YieldItem(t, ProgressItem(ToolPhrase(m[k2]),
                                                               m[k2]), "graph")
                        \/ \E structured_response \in env.responses :
                              Finish(t, a1, c, tr1, structured_response)
                        \/ \E e \in env.faults : Fault(t, a1, c, tr1, e)

(* the event loop runs one step of one task at a time: a task is resumed    *)
(* when the thread is in no other task's step                               *)
Scheduled(t) == holder \in {0, t}

(* the first step of stream(): the cache lookup; a hit is yielded, a miss   *)
(* enters the loop over graph.stream                                        *)
StreamStart(t, env) ==
    /\ Scheduled(t)
    /\ pc[t] = "started"
    /\ LET a0 == [AgentLocals EXCEPT !.start_time = now]
       IN  IF settings.enable_caching
           THEN LET got == CacheGet(cache, cache_key(t), now)
                    tr0 == <<Call("cache_get", "", <<>>, 0)>>
                IN  IF got.found
                    THEN LET cached_result == HitItem(got.value, now - a0.start_time)
                             i == KeyIndex(cache, cache_key(t))
                         IN  /\ cache' = [cache EXCEPT ![i].value = cached_result]
                             /\ agent' = [agent EXCEPT
                                             ![t] = [a0 EXCEPT
                                                        !.cached_result = got.value]]
                             /\ trace' = [trace EXCEPT ![t] = tr0]
                             /\ YieldItem(t, cached_result, "final")
                    ELSE RunGraph(t, a0, got.cache, tr0, env)
           ELSE RunGraph(t, a0, cache, <<>>, env)

(* stream() resumes after a progress item of the loop *)
GraphResume(t, env) ==
    /\ Scheduled(t)
    /\ pc[t] = "graph"
    /\ RunGraph(t, agent[t], cache, trace[t], env)

(* FallbackResume without the try/except around the web search *)
FallbackResume_unguarded(t, env) ==
    /\ Scheduled(t)
    /\ pc[t] = "fallback"
    /\ \E http \in env.http :
        LET a == agent[t]
            tr1 == Append(trace[t],
                          Call("web_search", "", request[t].query,
                               fallback_max_results))
        IN  IF http.kind = "raise"
            THEN Fault(t, [a EXCEPT !.web_status = "raised"], cache, tr1,
                       <<"w", "e", "b">>)
            ELSE LET web_results == web_search(settings, request[t].query,
                                               fallback_max_results, http)
                     answer == IF web_results # <<>>
                               THEN SynthesizeFromWeb(web_results)
                               ELSE KeepOriginalAsCompleted(a.final_result)
                 IN  EmitFinal(t,
                               [a EXCEPT
                                   !.web_status = "returned",
                                   !.web_results = web_results,
                                   !.final_result =
                                       [answer EXCEPT !.processing_time =
                                                          now - a.start_time]],
                               cache, tr1)

(* stream() resumes after the fallback's progress item: the web search and  *)
(* the answer made of its results                                           *)
FallbackResume(t, env) ==
    /\ Scheduled(t)
    /\ pc[t] = "fallback"
    /\ \E http \in env.http :
        LET a == agent[t]
            tr1 == Append(trace[t],
                          Call("web_search", "", request[t].query,
                               fallback_max_results))
        IN  IF http.kind = "raise"
            THEN EmitFinal(t, [a EXCEPT !.web_status = "raised"], cache, tr1)
            ELSE LET web_results == web_search(settings, request[t].query,
                                               fallback_max_results, http)
                     answer == IF web_results # <<>>
                               THEN SynthesizeFromWeb(web_results)
                               ELSE KeepOriginalAsCompleted(a.final_result)
                 IN  EmitFinal(t,
                               [a EXCEPT
                                   !.web_status = "returned",
                                   !.web_results = web_results,
                                   !.final_result =
                                       [answer EXCEPT !.processing_time =
                                                          now - a.start_time]],
                               cache, tr1)

(* StreamEnd leaving successful_requests as it was *)
StreamEnd_uncounted(t) ==
    /\ Scheduled(t)
    /\ pc[t] = "final"
    /\ performance_metrics' =
          [performance_metrics EXCEPT
              !.total_response_time = @ + (now - request[t].start_time),
              !.cache_misses = @ + 1]
    /\ pc' = [pc EXCEPT ![t] = "ended"]
    /\ outcome' = [outcome EXCEPT ![t] = "returned"]
    /\ holder' = 0
    /\ UNCHANGED <<cancelled, cache_call, search_call, collection, add_call,
                   rag_call, settings, hashseed, now,
                   cache, request, events, agent, yielded, trace>>

(* stream() is exhausted: execute() updates its metrics and returns *)
StreamEnd(t) ==
    /\ Scheduled(t)
    /\ pc[t] = "final"
    /\ performance_metrics' =
          [performance_metrics EXCEPT
              !.total_response_time = @ + (now - request[t].start_time),
              !.successful_requests = @ + 1,
              !.cache_misses = @ + 1]
    /\ pc' = [pc EXCEPT ![t] = "ended"]
    /\ outcome' = [outcome EXCEPT ![t] = "returned"]
    /\ holder' = 0
    /\ UNCHANGED <<cancelled, cache_call, search_call, collection, add_call,
                   rag_call, settings, hashseed, now,
                   cache, request, events, agent, yielded, trace>>

Resume(t, env) ==
    \/ StreamStart(t, env)
    \/ GraphResume(t, env)
    \/ FallbackResume(t, env)
    \/ StreamEnd(t)

(* one executor serving one request after another *)
Next == Tick \/ \E t \in SeqTasks : Execute(t, ServiceEnv) \/ Resume(t, ServiceEnv)

Spec == Init /\ [][Next]_vars

(* one execute() call *)
CallNext == Tick \/ \E t \in SeqTasks : Execute(t, CallEnv) \/ Resume(t, CallEnv)

CallSpec == CallInit /\ [][CallNext]_vars

(* requests one after another on one executor, every answer the oracle and  *)
(* the web search can give, one valid and one blank text                    *)
LiveEnv ==
    [CallEnv EXCEPT !.again = TRUE,
                    !.queries = {QueryA, <<" ", " ">>},
                    !.has_task = {FALSE},
                    !.tools = {"rag_search"}]

LiveInit == InitWith(ServiceSettings, {"spread"})

LiveNext == Tick \/ \E t \in SeqTasks : Execute(t, LiveEnv) \/ Resume(t, LiveEnv)

(* every resumption of a suspended call eventually happens: the oracle, the *)
(* web search and the cache return or raise                                 *)
FairSpec ==
    LiveInit /\ [][LiveNext]_vars /\ \A t \in SeqTasks : WF_vars(Resume(t, LiveEnv))

----------------------------------------------------------------------------
(* cancel() implemented: a final canceled status, and a normal return *)
Cancel_accepting(t) ==
    /\ holder = 0
    /\ cancelled' = [cancelled EXCEPT ![t] = "returned"]
    /\ events' = [events EXCEPT ![t] = Append(@, StatusEvent("canceled", <<>>, TRUE))]
    /\ UNCHANGED <<holder, cache_call, search_call, collection, add_call,
                   rag_call, settings, hashseed, now, cache,
                   performance_metrics, pc, request, agent, yielded, trace, outcome>>

(* A2AAgentExecutor.cancel: raises, whatever the task and its state *)
Cancel(t) ==
    /\ holder = 0
    /\ cancelled' = [cancelled EXCEPT ![t] = "UnsupportedOperationError"]
    /\ UNCHANGED <<holder, cache_call, search_call, collection, add_call,
                   rag_call, settings, hashseed, now, cache,
                   performance_metrics, pc, request, events, agent, yielded, trace,
                   outcome>>

(* requests one after another, and cancellations of any task at any time *)
CancelNext == LiveNext \/ \E t \in Tasks : Cancel(t)

CancelSpec == LiveInit /\ [][CancelNext]_vars

----------------------------------------------------------------------------

(* CacheManager on its own: callers that set, get and clear.  A call is     *)
(* made, and then runs: get, set and clear have no await in them, so each   *)
(* runs to its end before the event loop lets another caller's call run.    *)
(* The capacity and the purge batch are scaled down (SmallMaxSize for 1000, *)
(* SmallBatch for 100) so that a run fills the dict.                        *)

CacheKeys == {"k1", "k2", "k3"}

CacheValues ==
    { Item(TRUE, FALSE, <<"answer 1">>, 90, <<>>, FALSE, 0, TRUE, {}, ""),
      Item(TRUE, FALSE, <<"answer 2">>, 60, <<>>, FALSE, 0, FALSE, {}, "") }

TTLs == 1..cache_ttl

CacheCalls ==
    { CacheCall("set", key, value, ttl) :
          key \in CacheKeys, value \in CacheValues, ttl \in TTLs }
    \cup { CacheCall("get", key, NoItem, 0) : key \in CacheKeys }
    \cup { CacheCall("clear", "", NoItem, 0) }

(* what racing callers do: set and get, each caller storing its own value *)
RaceCalls(t) ==
    { CacheCall("set", key, value, cache_ttl) :
          key \in CacheKeys,
          value \in { v \in CacheValues : (v.confidence = 90) = (t = 1) } }
    \cup { CacheCall("get", key, NoItem, 0) : key \in CacheKeys }

(* a caller calls the cache *)
CacheCalled(t, calls) ==
    /\ cache_call[t].state # "called"
    /\ \E call \in calls : cache_call' = [cache_call EXCEPT ![t] = call]
    /\ UNCHANGED <<holder, cancelled, search_call, collection, add_call,
                   rag_call, settings, hashseed, now, cache,
                   performance_metrics, pc, request, events, agent, yielded, trace,
                   outcome>>

(* the call runs, to its end, and returns *)
CacheReturn(t) ==
    /\ cache_call[t].state = "called"
    /\ LET call == cache_call[t]
           got == CacheGet(cache, call.key, now)
       IN  IF call.op = "get"
           THEN /\ cache' = got.cache
                /\ cache_call' = [cache_call EXCEPT
                                     ![t] = [call EXCEPT !.state = "returned",
                                                         !.found = got.found,
                                                         !.result = got.value]]
           ELSE /\ cache' = IF call.op = "set"
                            THEN CacheSetWith(cache, call.key, call.value, call.ttl,
                                              now, SmallMaxSize, SmallBatch)
                            ELSE CacheClear(cache)
                /\ cache_call' = [cache_call EXCEPT
                                     ![t] = [call EXCEPT !.state = "returned"]]
    /\ UNCHANGED <<holder, cancelled, search_call, collection, add_call,
                   rag_call, settings, hashseed, now,
                   performance_metrics, pc, request, events, agent, yielded, trace,
                   outcome>>

CacheInit == InitWith({[enable_web_search |-> FALSE, enable_caching |-> TRUE,
                        serper_api_key |-> FALSE]}, {"spread"})

(* one caller, while time passes *)
CacheNext == Tick \/ \E t \in SeqTasks : CacheCalled(t, CacheCalls) \/ CacheReturn(t)

CacheSpec == CacheInit /\ [][CacheNext]_vars

(* two callers whose calls are made and run in any order *)
RaceNext == \E t \in Tasks : CacheCalled(t, RaceCalls(t)) \/ CacheReturn(t)

RaceSpec == CacheInit /\ [][RaceNext]_vars

----------------------------------------------------------------------------

(* Two execute() calls on one event loop.  graph.stream is a synchronous    *)
(* generator that stream() iterates with a plain for: while the reasoning   *)
(* oracle (and the tools it runs) works on a task's behalf the thread stays *)
(* in that task's step, and the event loop resumes no other task until the  *)
(* step reaches its next yield.                                             *)

(* the next step of stream() for t advances graph.stream, i.e. calls the    *)
(* oracle: a cache miss, or a resumption with no progress item left to      *)
(* yield for the last message                                               *)
CallsOracleNext(t) ==
    \/ /\ pc[t] = "started"
       /\ ~(settings.enable_caching /\ CacheGet(cache, cache_key(t), now).found)
    \/ /\ pc[t] = "graph"
       /\ FirstKnown(agent[t].msg_calls) = 0

(* the event loop resumes t, whose step enters graph.stream *)
EnterGraphStream(t) ==
    /\ holder = 0
    /\ CallsOracleNext(t)
    /\ holder' = t
    /\ UNCHANGED <<cancelled, cache_call, search_call, collection, add_call,
                   rag_call, settings, hashseed, now, cache,
                   performance_metrics, pc, request, events, agent, yielded, trace,
                   outcome>>

ConcEnv ==
    [ServiceEnv EXCEPT !.again = FALSE,
                       !.queries = {QueryA},
                       !.contexts = {"ctx1"}]

ConcInit == InitWith(ServiceSettings, {"spread"})

ConcNext ==
    \/ Tick
    \/ \E t \in Tasks :
          Execute(t, ConcEnv) \/ EnterGraphStream(t) \/ Resume(t, ConcEnv)

ConcSpec == ConcInit /\ [][ConcNext]_vars

----------------------------------------------------------------------------

(* backend/data/vector_store.py: VectorStore.search.  Distances are in      *)
(* ten-thousandths and relevance scores in thousandths, so that             *)
(* round(1 - distance, 3) rounds.                                           *)

Distances == {0, 4, 5, 15, 5000, 10000, 12000}

(* what collection.query(query_embeddings, n_results) answers: at most      *)
(* n_results documents of the collection, the nearest first                 *)
IndexAnswers ==
    { a \in UNION { [1..n -> Distances] : n \in 0..MaxHits } :
        \A i \in 1..(Len(a) - 1) : a[i] <= a[i + 1] }

(* round(x, 3) of x = n ten-thousandths, in thousandths: to the nearest,    *)
(* a tie to the even one                                                    *)
Round3(n) ==
    LET q == n \div 10
        r == n % 10
    IN  IF r < 5 THEN q
        ELSE IF r > 5 THEN q + 1
        ELSE IF q % 2 = 0 THEN q ELSE q + 1

SearchResult(content, distance, relevance_score) ==
    [content |-> content, distance |-> distance, relevance_score |-> relevance_score]

(* search with the score taken from the distance itself *)
search_scored_by_distance(answer, has_distances, raised) ==
    IF raised THEN <<>>
    ELSE [i \in 1..Len(answer) |->
            IF has_distances
            THEN SearchResult("doc", answer[i], Round3(answer[i]))
            ELSE SearchResult("doc", 0, 1000)]

(* VectorStore.search: the formatted results, in the order of the answer;   *)
(* nothing when the embedding or the query raises                           *)
search(answer, has_distances, raised) ==
    IF raised THEN <<>>
    ELSE [i \in 1..Len(answer) |->
            IF has_distances
            THEN SearchResult("doc", answer[i], Round3(10000 - answer[i]))
            ELSE SearchResult("doc", 0, 1000)]

(* a search is made and returns *)
Search ==
    /\ \E answer \in IndexAnswers, has_distances \in BOOLEAN, raised \in BOOLEAN :
          search_call' = [answer |-> answer, has_distances |-> has_distances,
                          raised |-> raised,
                          results |-> search(answer, has_distances, raised),
                          done |-> TRUE]
    /\ UNCHANGED <<holder, cancelled, cache_call, collection, add_call, rag_call,
                   settings, hashseed, now, cache, performance_metrics, pc, request,
                   events, agent, yielded, trace, outcome>>

SearchNext == Search

SearchSpec == CacheInit /\ [][SearchNext]_vars

----------------------------------------------------------------------------

(* backend/data/vector_store.py: get_embedding, add_documents and search   *)
(* over the collection, and backend/tools/rag_tool.py: rag_search.  An      *)
(* embedding is its length, the text it was made of and who made it; a      *)
(* stored document is its text and the length of its embedding.             *)

MaxDocs == 3          \* documents of one add_documents call
MaxBatch == 2         \* batch_size of an add_documents call
MaxStored == 3        \* documents the collection holds at most

hexdigest_length == 32      \* len(hashlib.md5(...).hexdigest())
fallback_slice == 384       \* hexdigest()[:384]
provider_dimension == 768   \* length of a vector of settings.embedding_model

Min(a, b) == IF a < b THEN a ELSE b

Unencodable == "lone surrogate"    \* a str that str.encode() refuses

Texts == {"phone", Unencodable}

(* VectorStore.get_embedding: the provider's vector, or, when the provider  *)
(* faults, one character code per character of the md5 hex digest of the    *)
(* encoded text; it raises when the provider faults and the text cannot be  *)
(* encoded                                                                  *)
get_embedding(text, provider_fault) ==
    IF ~provider_fault
    THEN [raised |-> FALSE, length |-> provider_dimension, of |-> text,
          by |-> "provider"]
    ELSE IF text = Unencodable
    THEN [raised |-> TRUE, length |-> 0, of |-> text, by |-> "none"]
    ELSE [raised |-> FALSE, length |-> Min(hexdigest_length, fallback_slice),
          of |-> text, by |-> "md5"]

VectorDocument(content, embedding) ==
    [content |-> content, length |-> embedding.length]

(* the dimension the collection expects: that of the first vector stored *)
Dimension(c) == IF c = <<>> THEN 0 ELSE c[1].length

(* collection.add(ids, embeddings, metadatas, documents): every vector has  *)
(* the collection's dimension and all are stored, or it raises and none is  *)
collection_add(c, texts, embeddings, fault) ==
    LET dim == IF c = <<>> THEN embeddings[1].length ELSE Dimension(c)
        ok == ~fault /\ \A i \in 1..Len(embeddings) : embeddings[i].length = dim
    IN  [raised |-> ~ok,
         collection |-> IF ok
                        THEN c \o [i \in 1..Len(texts) |->
                                      VectorDocument(texts[i], embeddings[i])]
                        ELSE c]

(* the distance of a stored document from a query vector, in               *)
(* ten-thousandths: a document of the same text is at distance 0            *)
Distance(doc, embedding) == IF doc.content = embedding.of THEN 0 ELSE 5000

(* collection.query(query_embeddings, n_results): the distances of the      *)
(* n_results nearest documents, the nearest first; it raises on a vector    *)
(* that is not of the collection's dimension                                *)
collection_query(c, embedding, k, fault) ==
    IF fault \/ (c # <<>> /\ embedding.length # Dimension(c))
    THEN [raised |-> TRUE, answer |-> <<>>]
    ELSE LET near == SelectSeq(c, LAMBDA d : Distance(d, embedding) = 0)
             far == SelectSeq(c, LAMBDA d : Distance(d, embedding) # 0)
             all == near \o far
         IN  [raised |-> FALSE,
              answer |-> [i \in 1..Min(k, Len(all)) |-> Distance(all[i], embedding)]]

(* vector_search with the try around the query left out *)
vector_search_unguarded(c, query, k, provider_fault, index_fault) ==
    LET e == get_embedding(query, provider_fault)
        q == IF e.raised THEN [raised |-> TRUE, answer |-> <<>>]
             ELSE collection_query(c, e, k, index_fault)
    IN  [raised |-> q.raised, embedding_raised |-> e.raised, length |-> e.length,
         query_raised |-> ~e.raised /\ q.raised,
         value |-> search(q.answer, TRUE, q.raised)]

(* VectorStore.search on the collection: the embedding, the query and the   *)
(* formatting are all inside the try                                        *)
vector_search(c, query, k, provider_fault, index_fault) ==
    LET e == get_embedding(query, provider_fault)
        q == IF e.raised THEN [raised |-> TRUE, answer |-> <<>>]
             ELSE collection_query(c, e, k, index_fault)
    IN  [raised |-> FALSE, embedding_raised |-> e.raised, length |-> e.length,
         query_raised |-> ~e.raised /\ q.raised,
         value |-> search(q.answer, TRUE, q.raised)]

(* rag_search: the results of the search, formatted for the agent; an       *)
(* empty list when anything raises (a result whose metadata is None makes   *)
(* the formatting raise)                                                    *)
rag_search(found, format_fault) ==
    IF found.raised \/ (format_fault /\ found.value # <<>>)
    THEN [raised |-> FALSE, value |-> <<>>]
    ELSE [raised |-> FALSE,
          value |-> [i \in 1..Len(found.value) |->
                        [content |-> found.value[i].content,
                         relevance_score |-> found.value[i].relevance_score,
                         source |-> "vector_database"]]]

(* Batch reaching one document into the next batch *)
Batch_overlapping(documents, i, batch_size) ==
    SubSeq(documents, i + 1, Min(i + batch_size + 1, Len(documents)))

(* documents[i:i + batch_size] *)
Batch(documents, i, batch_size) ==
    SubSeq(documents, i + 1, Min(i + batch_size, Len(documents)))

DocumentLists == UNION { [1..n -> Texts] : n \in 0..MaxDocs }

(* add_documents is called *)
AddDocuments(documents, batch_size) ==
    /\ add_call.state # "running"
    /\ Len(collection) + Len(documents) <= MaxStored
    /\ add_call' = [state |-> "running", documents |-> documents,
                    batch_size |-> batch_size, i |-> 0, total_added |-> 0,
                    batches |-> <<>>, before |-> collection, cause |-> "none"]
    /\ UNCHANGED <<holder, cancelled, cache_call, search_call, collection, rag_call,
                   settings, hashseed, now, cache, performance_metrics, pc, request,
                   events, agent, yielded, trace, outcome>>

(* one turn of its loop: the batch documents[i:i + batch_size] is embedded  *)
(* text by text and added to the collection; an exception of get_embedding  *)
(* or of collection.add ends the call                                       *)
AddBatch ==
    /\ add_call.state = "running"
    /\ add_call.i < Len(add_call.documents)
    /\ LET call == add_call
           batch == Batch(call.documents, call.i, call.batch_size)
       IN  \E faults \in [1..Len(batch) -> BOOLEAN], index_fault \in BOOLEAN :
              LET embeddings == [j \in 1..Len(batch) |->
                                    get_embedding(batch[j], faults[j])]
                  added == collection_add(collection, batch, embeddings, index_fault)
              IN  IF \E j \in 1..Len(batch) : embeddings[j].raised
                  THEN /\ add_call' = [call EXCEPT !.state = "raised",
                                                   !.cause = "embedding"]
                       /\ collection' = collection
                  ELSE IF added.raised
                  THEN /\ add_call' = [call EXCEPT
                                          !.state = "raised",
                                          !.cause = IF index_fault THEN "index"
                                                    ELSE "dimension"]
                       /\ collection' = added.collection
                  ELSE /\ add_call' = [call EXCEPT
                                          !.i = call.i + call.batch_size,
                                          !.total_added = call.total_added + Len(batch),
                                          !.batches = Append(call.batches, batch)]
                       /\ collection' = added.collection
    /\ UNCHANGED <<holder, cancelled, cache_call, search_call, rag_call, settings,
                   hashseed, now, cache, performance_metrics, pc, request, events,
                   agent, yielded, trace, outcome>>

(* the loop is over: add_documents returns total_added *)
AddReturn ==
    /\ add_call.state = "running"
    /\ add_call.i >= Len(add_call.documents)
    /\ add_call' = [add_call EXCEPT !.state = "returned"]
    /\ UNCHANGED <<holder, cancelled, cache_call, search_call, collection, rag_call,
                   settings, hashseed, now, cache, performance_metrics, pc, request,
                   events, agent, yielded, trace, outcome>>

(* the agent's tool call rag_search(query), with max_results = MaxHits:     *)
(* add_documents has no await in it, so no search runs inside one           *)
RagSearch ==
    /\ add_call.state # "running"
    /\ \E query \in Texts, provider_fault \in BOOLEAN, index_fault \in BOOLEAN,
          format_fault \in BOOLEAN :
          LET found == vector_search(collection, query, MaxHits, provider_fault,
                                     index_fault)
              out == rag_search(found, format_fault)
          IN  rag_call' = [done |-> TRUE, query |-> query,
                           provider_fault |-> provider_fault,
                           length |-> found.length,
                           expected |-> Dimension(collection),
                           embedding_raised |-> found.embedding_raised,
                           query_raised |-> found.query_raised,
                           format_raised |-> format_fault /\ found.value # <<>>,
                           search_raised |-> found.raised,
                           results |-> found.value,
                           raised |-> out.raised, value |-> out.value]
    /\ UNCHANGED <<holder, cancelled, cache_call, search_call, collection, add_call,
                   settings, hashseed, now, cache, performance_metrics, pc, request,
                   events, agent, yielded, trace, outcome>>

IndexNext ==
    \/ \E documents \in DocumentLists, batch_size \in 1..MaxBatch :
          AddDocuments(documents, batch_size)
    \/ AddBatch
    \/ AddReturn
    \/ RagSearch

IndexSpec == CacheInit /\ [][IndexNext]_vars

----------------------------------------------------------------------------

(* Vocabulary of the properties *)

Last(s) == s[Len(s)]

CountOp(t, op) == Cardinality({ i \in 1..Len(trace[t]) : trace[t][i].op = op })

IsFinalEvent(e) == e.kind = "status" /\ e.final

FinalEvents(t) == { i \in 1..Len(events[t]) : IsFinalEvent(events[t][i]) }

WorkingEvents(t) ==
    { i \in 1..Len(events[t]) :
        events[t][i].kind = "status" /\ events[t][i].state = "working" }

Validated(t) == pc[t] # "idle" /\ outcome[t] # "InvalidParamsError"

Ended(t) == pc[t] = "ended"

(* stream() has yielded its last item *)
Answered(t) == pc[t] = "final" \/ (pc[t] = "ended" /\ outcome[t] = "returned")

OracleStatus(t) ==
    IF agent[t].structured_response.valid
    THEN agent[t].structured_response.status ELSE "none"

----------------------------------------------------------------------------
(* C1: every execute() call that passed validation and has ended put        *)
(* exactly one final event on its queue, every working event stands before  *)
(* it, and the working events carry the progress items in the order         *)
(* stream() yielded them.                                                   *)
C1_ExactlyOneTerminal ==
    \A t \in Tasks :
        (Ended(t) /\ Validated(t)) =>
            /\ Cardinality(FinalEvents(t)) = 1
            /\ \A i \in WorkingEvents(t), j \in FinalEvents(t) : i < j
            /\ LET working == SelectSeq(events[t],
                                        LAMBDA e : e.kind = "status" /\ e.state = "working")
                   progress == SelectSeq(yielded[t], IsProgress)
               IN  /\ Len(working) = Len(progress)
                   /\ \A i \in 1..Len(working) : working[i].text = progress[i].content

(* a call of the shape C1 is about, ended with two final events *)
C1_InputRequiredEnded ==
    \E t \in Tasks :
        /\ Ended(t) /\ outcome[t] = "returned"
        /\ Last(yielded[t]).require_user_input

----------------------------------------------------------------------------
(* C2, as stated: no execute() call ends, by return or by raise, without a  *)
(* final event on its queue, a call rejected by validation included.        *)
C2_NoCallEndsWithoutTerminal ==
    \A t \in Tasks : Ended(t) => FinalEvents(t) # {}

(* C2, amended: a call that passed validation never ends without a final    *)
(* event, and with every resumption eventually happening it does end; a     *)
(* call rejected by validation ends with the invalid-request error and an   *)
(* empty queue.                                                             *)
C2_ValidatedCallReachesTerminal ==
    \A t \in SeqTasks :
        /\ [](Ended(t) =>
                IF outcome[t] = "InvalidParamsError"
                THEN events[t] = <<>>
                ELSE FinalEvents(t) # {})
        /\ (pc[t] \in {"started", "graph", "fallback", "final"})
              ~> (Ended(t) /\ FinalEvents(t) # {})

(* a call that ended on an internal fault, with its final event *)
C2_FaultEndedWithTerminal ==
    \E t \in Tasks :
        /\ Ended(t) /\ outcome[t] = "InternalError"
        /\ FinalEvents(t) # {}
        /\ yielded[t] # <<>>

----------------------------------------------------------------------------
(* C3: an execute() call whose text is empty, shorter than 2 characters     *)
(* once trimmed, or longer than max_context_length ends at once with the    *)
(* invalid-request error: no oracle call, no cache read or write, no event; *)
(* total_requests and failed_requests grow by 1 and no other counter moves. *)
TrimmedLen(text) ==
    LET solid == { i \in 1..Len(text) : text[i] # " " }
    IN  IF solid = {} THEN 0
        ELSE (CHOOSE i \in solid : \A j \in solid : j <= i)
             - (CHOOSE i \in solid : \A j \in solid : i <= j) + 1

MustReject(text) ==
    Len(text) = 0 \/ TrimmedLen(text) < 2 \/ Len(text) > max_context_length

C3_RejectedBeforeAnyWork ==
    [][\A t \in SeqTasks :
          ( /\ pc[t] \in {"idle", "ended"}
            /\ performance_metrics'.total_requests
                  = performance_metrics.total_requests + 1
            /\ MustReject(request'[t].query) )
          => /\ pc'[t] = "ended"
             /\ outcome'[t] = "InvalidParamsError"
             /\ trace'[t] = <<>> /\ events'[t] = <<>> /\ yielded'[t] = <<>>
             /\ cache' = cache
             /\ performance_metrics' =
                   [performance_metrics EXCEPT !.total_requests = @ + 1,
                                               !.failed_requests = @ + 1]]_vars

(* a request of three characters, one once trimmed, rejected while the      *)
(* cache holds an entry                                                     *)
C3_RejectedTrimmed ==
    \E t \in SeqTasks :
        /\ Ended(t) /\ outcome[t] = "InvalidParamsError"
        /\ request[t].query = <<" ", "a", " ">>
        /\ cache # <<>>
        /\ performance_metrics.successful_requests = 1

----------------------------------------------------------------------------
(* C4: when stream() starts while a completed answer is stored, unexpired,  *)
(* under the key of its query text and context id, it calls neither the     *)
(* oracle nor a tool nor the web search and yields one item: the stored     *)
(* answer with from_cache true; it yields nothing after it.                 *)
StoredLive(key) ==
    \E i \in 1..Len(cache) :
        /\ cache[i].key = key
        /\ cache[i].value.is_task_complete
        /\ now < cache[i].timestamp + cache[i].ttl

StoredAnswer(key) == cache[CHOOSE i \in 1..Len(cache) : cache[i].key = key].value

C4_HitSkipsOracle ==
    [][\A t \in SeqTasks :
          /\ ( /\ pc[t] = "started" /\ pc'[t] # "started"
               /\ settings.enable_caching
               /\ StoredLive(cache_key(t)) )
             => /\ CountOp(t, "oracle")' = 0
                /\ CountOp(t, "tool_exec")' = 0
                /\ CountOp(t, "web_search")' = 0
                /\ Len(yielded'[t]) = 1
                /\ LET item == yielded'[t][1]
                       stored == StoredAnswer(cache_key(t))
                   IN  /\ item.from_cache
                       /\ item.is_task_complete /\ ~item.require_user_input
                       /\ item.content = stored.content
                       /\ item.confidence = stored.confidence
                       /\ item.sources = stored.sources
                       /\ item.tools_used = stored.tools_used
                /\ pc'[t] = "final"
          /\ ( pc[t] = "final" /\ pc'[t] # "final" )
             => /\ yielded'[t] = yielded[t]
                /\ trace'[t] = trace[t]
                /\ pc'[t] = "ended"]_vars

(* a call answered from the cache has returned *)
C4_HitReturned ==
    \E t \in SeqTasks :
        /\ Ended(t) /\ outcome[t] = "returned"
        /\ Len(yielded[t]) = 1
        /\ yielded[t][1].from_cache
        /\ CountOp(t, "cache_get") = 1
        /\ CountOp(t, "oracle") = 0

----------------------------------------------------------------------------
(* Vocabulary of the fallback properties: what the oracle's answer makes of *)
(* the result before the fallback                                           *)

CacheWritten(t) == CountOp(t, "cache_set") > 0

FallbackProgress(t) ==
    { i \in 1..Len(yielded[t]) : yielded[t][i].content = <<PhraseFallback>> }

WebCalls(t) == SelectSeq(trace[t], LAMBDA c : c.op = "web_search")

(* the answer is the oracle's own result, as get_agent_response shapes it *)
IsOriginal(t, item) ==
    LET r == agent[t].structured_response
    IN  /\ item.is_task_complete = (r.status = "completed")
        /\ item.require_user_input = (r.status # "completed")
        /\ item.content = r.message
        /\ item.confidence = (IF r.status = "error" THEN 0 ELSE r.confidence)
        /\ item.sources = (IF r.status = "error" THEN <<>> ELSE r.sources)
        /\ ~item.from_cache

----------------------------------------------------------------------------
(* C5, as stated: with caching enabled, a stream() run in which the oracle  *)
(* gave a structured response has written to the cache if and only if the   *)
(* oracle's final status was completed.                                     *)
C5_CachedIffOracleCompleted ==
    \A t \in Tasks :
        (Answered(t) /\ settings.enable_caching /\ agent[t].structured_response.valid)
            => (CacheWritten(t) <=> OracleStatus(t) = "completed")

(* C5, amended: a stream() run that missed the cache has written to it if   *)
(* and only if caching is enabled and the answer it yields last is          *)
(* complete: the oracle's status was completed, or the web-search fallback  *)
(* replaced an input_required or error result by a completed answer, or the *)
(* oracle gave no structured response.  An input_required or error result   *)
(* the fallback did not replace is not cached.  What is written is the      *)
(* answer yielded, under the key of the request.                            *)
C5_CachedIffAnswerComplete ==
    \A t \in Tasks :
        (Answered(t) /\ CountOp(t, "oracle") > 0) =>
            LET answer == Last(yielded[t])
            IN  /\ CacheWritten(t) <=>
                      (settings.enable_caching /\ answer.is_task_complete)
                /\ answer.is_task_complete <=>
                      \/ OracleStatus(t) \in {"completed", "none"}
                      \/ agent[t].web_status = "returned"
                /\ ( /\ OracleStatus(t) \in {"input_required", "error"}
                     /\ agent[t].web_status # "returned" ) => ~CacheWritten(t)
                /\ CountOp(t, "cache_set") <= 1
                /\ CacheWritten(t) =>
                      /\ KeyIndex(cache, cache_key(t)) # 0
                      /\ cache[KeyIndex(cache, cache_key(t))].value = answer

(* an input_required result the fallback replaced, cached *)
C5_EscalatedAnswerCached ==
    \E t \in Tasks :
        /\ Answered(t) /\ OracleStatus(t) = "input_required"
        /\ CacheWritten(t)
        /\ cache # <<>>

----------------------------------------------------------------------------
(* C6: when the oracle's final status is error, the fallback does not call  *)
(* the web search and yields no fallback progress item, whether web search  *)
(* is enabled or not, and the answer is the error result.                   *)
C6_ErrorNeverEscalates ==
    \A t \in Tasks :
        OracleStatus(t) = "error" =>
            /\ WebCalls(t) = <<>>
            /\ FallbackProgress(t) = {}
            /\ Answered(t) => IsOriginal(t, Last(yielded[t]))

----------------------------------------------------------------------------
(* C7: when the oracle's final status is input_required, an answered run    *)
(* has made exactly one web-search call, with the request's text and        *)
(* max_results 3, if web search is enabled; if it is disabled the run made  *)
(* none, yielded no fallback progress item and its answer is the            *)
(* input_required result itself.  No run makes more than one such call.     *)
C7_InputRequiredEscalatesOnce ==
    \A t \in Tasks :
        /\ Len(WebCalls(t)) <= 1
        /\ (Answered(t) /\ OracleStatus(t) = "input_required") =>
              IF settings.enable_web_search
              THEN WebCalls(t) = <<Call("web_search", "", request[t].query, 3)>>
              ELSE /\ WebCalls(t) = <<>>
                   /\ FallbackProgress(t) = {}
                   /\ IsOriginal(t, Last(yielded[t]))
                   /\ Last(yielded[t]).tools_used = SeqToSet(agent[t].tool_calls_made)

C7_EscalatedOnce ==
    \E t \in Tasks :
        /\ Answered(t) /\ OracleStatus(t) = "input_required"
        /\ settings.enable_web_search
        /\ Len(WebCalls(t)) = 1
        /\ CountOp(t, "tool_exec") > 0

----------------------------------------------------------------------------
(* C8 and C9 speak of the links of the results *)
AllLinks(results) == [i \in 1..Len(results) |-> results[i].link]

LinkedResults(results) == { i \in 1..Len(results) : results[i].link # "" }

(* the i-th non-empty link, in the order of the results *)
NthLinked(results, n) ==
    CHOOSE i \in LinkedResults(results) :
        Cardinality({ j \in LinkedResults(results) : j <= i }) = n

NonEmptyLinks(results) ==
    [n \in 1..Cardinality(LinkedResults(results)) |->
        results[NthLinked(results, n)].link]

EscalatedWith(t) == Answered(t) /\ agent[t].web_status = "returned"

ContentOfTop(top) ==
    IF top.link # "" /\ top.snippet # ""
    THEN <<top.snippet, PhraseSourcePrefix, top.link>>
    ELSE IF top.link # "" THEN <<PhraseSourcePrefix, top.link>>
    ELSE IF top.snippet # "" THEN <<top.snippet>>
    ELSE <<PhraseNoWebInfo>>

(* C8, as stated: after a fallback whose result list is not empty the       *)
(* answer is completed with confidence 0.6, its content is made of the      *)
(* first result's snippet and link, and its sources are the links of the    *)
(* results, in order, at most 3.                                            *)
C8_SourcesAreTheLinks ==
    \A t \in Tasks :
        (EscalatedWith(t) /\ agent[t].web_results # <<>>) =>
            LET answer == Last(yielded[t])
            IN  /\ answer.is_task_complete /\ ~answer.require_user_input
                /\ answer.confidence = 60
                /\ answer.content = ContentOfTop(agent[t].web_results[1])
                /\ answer.sources = Take(AllLinks(agent[t].web_results), 3)

(* C8, amended: the sources are the non-empty links of the results, in      *)
(* order, at most 3; the content is the first result's snippet followed by  *)
(* its link when it has one, the snippet alone when it has none, and a      *)
(* fixed phrase when both are empty.  One result with snippet 'iPhone 15    *)
(* info' and link 'http://x' gives sources ['http://x'] and a content that  *)
(* contains 'iPhone 15 info'.                                               *)
C8_SourcesAreTheNonEmptyLinks ==
    \A t \in Tasks :
        (EscalatedWith(t) /\ agent[t].web_results # <<>>) =>
            LET answer == Last(yielded[t])
                results == agent[t].web_results
            IN  /\ answer.is_task_complete /\ ~answer.require_user_input
                /\ answer.confidence = 60
                /\ answer.content = ContentOfTop(results[1])
                /\ answer.sources = Take(NonEmptyLinks(results), 3)
                /\ Len(answer.sources) <= 3
                /\ ~answer.from_cache
                /\ ( /\ Len(results) = 1
                     /\ results[1].snippet = "iPhone 15 info"
                     /\ results[1].link = "http://x" )
                   => /\ answer.sources = <<"http://x">>
                      /\ \E i \in 1..Len(answer.content) :
                            answer.content[i] = "iPhone 15 info"

(* three results, the second without a link *)
C8_ThreeResultsOneUnlinked ==
    \E t \in Tasks :
        /\ EscalatedWith(t)
        /\ Len(agent[t].web_results) = 3
        /\ agent[t].web_results[2].link = ""
        /\ Last(yielded[t]).sources = <<"http://1", "http://3">>

----------------------------------------------------------------------------
(* C9, as stated: after a fallback whose result list is empty the answer is *)
(* completed with confidence 0.5 and no sources, and its content is the     *)
(* message of the oracle's result.                                          *)
C9_ContentIsOriginalMessage ==
    \A t \in Tasks :
        (EscalatedWith(t) /\ agent[t].web_results = <<>>) =>
            LET answer == Last(yielded[t])
            IN  /\ answer.is_task_complete /\ ~answer.require_user_input
                /\ answer.confidence = 50
                /\ answer.sources = <<>>
                /\ answer.content = agent[t].structured_response.message

(* C9, amended: the content is the message of the oracle's result when that *)
(* message is not empty, and a fixed phrase when it is.                     *)
C9_ContentIsMessageOrPhrase ==
    \A t \in Tasks :
        (EscalatedWith(t) /\ agent[t].web_results = <<>>) =>
            LET answer == Last(yielded[t])
                message == agent[t].structured_response.message
            IN  /\ answer.is_task_complete /\ ~answer.require_user_input
                /\ answer.confidence = 50
                /\ answer.sources = <<>>
                /\ ~answer.from_cache
                /\ answer.content =
                      (IF message # <<>> THEN message ELSE <<PhraseNoWebAccess>>)

(* an input_required result with a message, and an empty result list *)
C9_EmptyResultsKeepMessage ==
    \E t \in Tasks :
        /\ EscalatedWith(t) /\ agent[t].web_results = <<>>
        /\ OracleStatus(t) = "input_required"
        /\ Last(yielded[t]).content = <<"which model?">>

----------------------------------------------------------------------------
(* C10: when the web search raises during the fallback, stream() still      *)
(* yields its answer, which is the result from before the fallback          *)
(* (status, content, confidence, sources, tools_used and processing_time    *)
(* as they were); nothing is written to the cache; the executor reports     *)
(* input_required with that content, and the call returns and is not        *)
(* counted as failed.                                                       *)
C10_RaisingSearchKeepsOriginal ==
    \A t \in Tasks :
        agent[t].web_status = "raised" =>
            /\ Answered(t)
            /\ LET answer == Last(yielded[t])
               IN  /\ IsOriginal(t, answer)
                   /\ answer = agent[t].original_result
                   /\ answer.require_user_input /\ ~answer.is_task_complete
                   /\ \E i \in FinalEvents(t) :
                         /\ events[t][i] = StatusEvent("input_required",
                                                       answer.content, TRUE)
                         /\ \A j \in FinalEvents(t) : i <= j
            /\ ~CacheWritten(t)
            /\ cache = <<>>
            /\ outcome[t] # "InternalError"
            /\ performance_metrics.failed_requests = 0

C10_SearchRaisedCallReturned ==
    \E t \in Tasks :
        /\ agent[t].web_status = "raised"
        /\ Ended(t) /\ outcome[t] = "returned"
        /\ settings.enable_caching
        /\ OracleStatus(t) = "input_required"

----------------------------------------------------------------------------
(* C11: when a fault leaves stream() while execute() consumes it, the call  *)
(* ends with the internal error, and in that step it puts one event on its  *)
(* queue, after everything it had put there: a final input_required status  *)
(* whose error summary is the first 100 characters of the error (all of it  *)
(* when shorter); it is the only final event of the call; failed_requests   *)
(* grows by 1 and no other counter moves.                                   *)
IsErrorSummary(err) ==
    \E e \in OracleFaults :
        /\ Len(err) = (IF Len(e) < 100 THEN Len(e) ELSE 100)
        /\ \A i \in 1..Len(err) : err[i] = e[i]

C11_FaultEmitsOneTruncatedEvent ==
    [][\A t \in SeqTasks :
          (outcome[t] # "InternalError" /\ outcome'[t] = "InternalError") =>
              /\ Len(events'[t]) = Len(events[t]) + 1
              /\ SubSeq(events'[t], 1, Len(events[t])) = events[t]
              /\ LET ev == Last(events'[t])
                 IN  /\ ev.kind = "status" /\ ev.state = "input_required" /\ ev.final
                     /\ Len(ev.err) <= 100
                     /\ IsErrorSummary(ev.err)
              /\ FinalEvents(t)' = {Len(events'[t])}
              /\ pc'[t] = "ended"
              /\ performance_metrics' =
                    [performance_metrics EXCEPT !.failed_requests = @ + 1]]_vars

(* an error of 101 characters, cut to 100, after a progress event and after *)
(* a call that succeeded                                                    *)
C11_LongErrorCut ==
    \E t \in SeqTasks :
        /\ Ended(t) /\ outcome[t] = "InternalError"
        /\ Len(Last(events[t]).err) = 100
        /\ WorkingEvents(t) # {}
        /\ performance_metrics.successful_requests = 1
        /\ performance_metrics.failed_requests = 1

----------------------------------------------------------------------------
(* C12: in a stream() run, every call of rag_search, shop_information_rag   *)
(* or web_search has exactly one progress item, in the order of the calls;  *)
(* no tool has executed before its progress item was yielded; the terminal  *)
(* item comes after every progress item; and two progress items that name   *)
(* the same tool carry the same phrase, the fallback's web search included. *)
ProgressItems(t) == SelectSeq(yielded[t], IsProgress)

C12_OneFixedPhrasePerToolCall ==
    \A t \in Tasks :
        LET progress == ProgressItems(t)
            known == KnownOf(agent[t].tool_calls_made)
        IN  /\ Len(progress) = Len(known)
            /\ \A i \in 1..Len(progress) : progress[i].tool_used = known[i]
            /\ CountOp(t, "tool_exec") <= Len(progress)
            /\ \A i \in 1..Len(yielded[t]) :
                  ~IsProgress(yielded[t][i]) => i = Len(yielded[t])
            /\ \A i, j \in 1..Len(progress) :
                  progress[i].tool_used = progress[j].tool_used
                      => progress[i].content = progress[j].content

----------------------------------------------------------------------------
----------------------------------------------------------------------------
(* C14: cancel() ends by raising the unsupported-operation error and in no  *)
(* other way, for a task that never ran, is running or has ended; the step  *)
(* puts no event on any queue and leaves the counters, the cache and the    *)
(* state of every call as they were.                                        *)
C14_CancelAlwaysRaises ==
    /\ [](\A t \in Tasks : cancelled[t] \in {"none", "UnsupportedOperationError"})
    /\ [][(cancelled' # cancelled) =>
             /\ \E t \in Tasks :
                   cancelled' = [cancelled EXCEPT ![t] = "UnsupportedOperationError"]
             /\ UNCHANGED <<events, performance_metrics, cache, pc, request, agent,
                            yielded, trace, outcome, now, holder>>]_vars

(* a cancellation of a running task, after a call that succeeded, and one   *)
(* of a task that never ran                                                 *)
C14_CancelledWhileRunning ==
    /\ cancelled[1] = "UnsupportedOperationError"
    /\ cancelled[2] = "UnsupportedOperationError"
    /\ pc[1] = "graph" /\ pc[2] = "idle"
    /\ performance_metrics.successful_requests = 1
    /\ WorkingEvents(1) # {}

----------------------------------------------------------------------------
(* C15: a get(key) that runs at time now returns the value stored under     *)
(* the key if and only if the key has an entry with now - stored_at < ttl,  *)
(* and then leaves the dict as it was; when the key's entry has             *)
(* now - stored_at >= ttl, get returns absent and removes that entry and    *)
(* no other; when the key has no entry, get returns absent and changes      *)
(* nothing.  So after an absent get the key has no entry, and has none      *)
(* until a set of that key.                                                 *)
GetRuns(t) ==
    /\ cache_call[t].state = "called" /\ cache_call[t].op = "get"
    /\ cache_call'[t].state = "returned"

C15_GetIffUnexpired ==
    [][\A t \in Tasks :
          /\ GetRuns(t) =>
               LET key == cache_call[t].key
                   stored == { i \in 1..Len(cache) : cache[i].key = key }
                   live == { i \in stored : now - cache[i].timestamp < cache[i].ttl }
               IN  /\ cache_call'[t].found <=> live # {}
                   /\ \A i \in live :
                         /\ cache_call'[t].result = cache[i].value
                         /\ cache' = cache
                   /\ live = {} =>
                         /\ cache_call'[t].result = NoItem
                         /\ cache' = SelectSeq(cache, LAMBDA e : e.key # key)
                         /\ Len(cache') = Len(cache) - Cardinality(stored)
               /\ Cardinality(stored) <= 1
          /\ \A key \in CacheKeys :
                ( /\ \A i \in 1..Len(cache) : cache[i].key # key
                  /\ \E i \in 1..Len(cache') : cache'[i].key = key )
                => \E u \in Tasks :
                      /\ cache_call[u].state = "called" /\ cache_call[u].op = "set"
                      /\ cache_call[u].key = key
                      /\ cache_call'[u].state = "returned"]_vars

(* a get that found its entry expired and removed it, leaving another       *)
(* expired entry in place                                                   *)
C15_ExpiredRemovedOtherKept ==
    \E t \in SeqTasks :
        /\ cache_call[t].state = "returned" /\ cache_call[t].op = "get"
        /\ ~cache_call[t].found
        /\ now = 1
        /\ Len(cache) = 1
        /\ cache[1].timestamp = 0 /\ cache[1].ttl = 1
        /\ cache[1].key # cache_call[t].key

----------------------------------------------------------------------------
(* C16: the dict never holds more entries than its capacity; a set that     *)
(* runs while the dict is at its capacity removes a batch of the entries    *)
(* (all of them when they are fewer than the batch) before it stores: no    *)
(* removed entry was stored later than an entry it keeps, whether expired   *)
(* or not; a set that runs below the capacity removes nothing; a get never  *)
(* changes the stored_at of an entry.                                       *)
SetRuns(t) ==
    /\ cache_call[t].state = "called" /\ cache_call[t].op = "set"
    /\ cache_call'[t].state = "returned"

(* the entries the step drops from the dict, the one under key aside (the   *)
(* step stores under key, so whether it first dropped that entry does not   *)
(* show)                                                                    *)
Purged(key) ==
    { i \in 1..Len(cache) :
        /\ cache[i].key # key
        /\ \A j \in 1..Len(cache') : cache'[j].key # cache[i].key }

C16_PurgesOldestBatch ==
    /\ [](Len(cache) <= SmallMaxSize)
    /\ [][\A t \in Tasks :
             /\ SetRuns(t) =>
                  LET key == cache_call[t].key
                      n == Len(cache)
                      batch == IF n < SmallBatch THEN n ELSE SmallBatch
                      old == { i \in 1..n : cache[i].key = key }
                      dropped == Purged(key)
                      kept == (1..n) \ (dropped \cup old)
                  IN  /\ n < SmallMaxSize => dropped = {}
                      /\ n >= SmallMaxSize =>
                            \/ /\ Cardinality(dropped) = batch
                               /\ \A i \in dropped, j \in kept \cup old :
                                     cache[i].timestamp <= cache[j].timestamp
                            \/ /\ Cardinality(dropped) = batch - 1
                               /\ old # {}
                               /\ \A i \in dropped \cup old, j \in kept :
                                     cache[i].timestamp <= cache[j].timestamp
                      /\ \E j \in 1..Len(cache') :
                            cache'[j] = Entry(key, cache_call[t].value, now,
                                              cache_call[t].ttl)
                      /\ \A i \in kept : \E j \in 1..Len(cache') : cache'[j] = cache[i]
             /\ GetRuns(t) =>
                  \A i \in 1..Len(cache), j \in 1..Len(cache') :
                      cache[i].key = cache'[j].key
                          => cache[i].timestamp = cache'[j].timestamp]_vars

(* a set that ran at time 1 and left the dict at its capacity, both entries *)
(* stored at time 1: what a set at capacity leaves when the entry it        *)
(* dropped was the one stored at time 0                                     *)
C16_OlderDroppedNewerKept ==
    \E t \in SeqTasks :
        /\ cache_call[t].state = "returned" /\ cache_call[t].op = "set"
        /\ now = 1
        /\ Len(cache) = 2
        /\ cache[1].timestamp = 1 /\ cache[1].key # cache_call[t].key
        /\ cache[2].key = cache_call[t].key /\ cache[2].timestamp = 1
        /\ performance_metrics.total_requests = 0

----------------------------------------------------------------------------
(* C17: with two callers whose set and get calls on the shared cache are    *)
(* made and run in any order, the dict never holds more entries than its    *)
(* capacity and every call returns (none raises); in particular when both   *)
(* callers have a set pending while the dict is at its capacity, the dict   *)
(* is within its capacity after both have run.                              *)
C17_RacingSetsStayWithinCapacity ==
    /\ [](Len(cache) <= SmallMaxSize)
    /\ [](\A t \in Tasks : cache_call[t].state \in {"idle", "called", "returned"})
    /\ [][\A t \in Tasks :
             (cache_call[t].state = "called" /\ cache_call'[t] # cache_call[t])
                 => /\ cache_call'[t].state = "returned"
                    /\ Len(cache') <= SmallMaxSize
                    /\ \A u \in Tasks \ {t} : cache_call'[u] = cache_call[u]
                    /\ SetRuns(t) =>
                          \E i \in 1..Len(cache') :
                              /\ cache'[i].key = cache_call[t].key
                              /\ cache'[i].value = cache_call[t].value]_vars

(* both callers had a set of a new key pending at capacity, and both ran *)
C17_TwoSetsAtCapacityRan ==
    /\ \A t \in Tasks :
          /\ cache_call[t].state = "returned" /\ cache_call[t].op = "set"
          /\ \E i \in 1..Len(cache) :
                cache[i].key = cache_call[t].key /\ cache[i].value = cache_call[t].value
    /\ cache_call[1].key # cache_call[2].key
    /\ Len(cache) = SmallMaxSize

----------------------------------------------------------------------------
(* C18: whenever a task is inside its reasoning-oracle call and another     *)
(* task has been submitted and has a step to take, that other task can      *)
(* take it.                                                                 *)
HasStepToTake(t) == pc[t] \in {"started", "graph", "fallback", "final"}

C18_OthersProgressDuringOracleCall ==
    \A a, b \in Tasks :
        (a # b /\ holder = a /\ HasStepToTake(b)) => ENABLED Resume(b, ConcEnv)

----------------------------------------------------------------------------
(* C19: once stream() has stored an answer in the cache, no later step      *)
(* changes a field of the stored value: as long as the entry stays (it is   *)
(* neither removed nor replaced by a new store) its value is the one that   *)
(* was stored, so from_cache stays false and processing_time stays what it  *)
(* was, whatever the number of hits.                                        *)
C19_StoredAnswerNeverChanges ==
    /\ [](\A i \in 1..Len(cache) : ~cache[i].value.from_cache)
    /\ [][\A i \in 1..Len(cache), j \in 1..Len(cache') :
             ( /\ cache[i].key = cache'[j].key
               /\ \A t \in Tasks : CountOp(t, "cache_set")' = CountOp(t, "cache_set")
                                   \/ cache_key(t)' # cache[i].key )
             => cache'[j].value = cache[i].value]_vars

----------------------------------------------------------------------------
(* C20: the results of a search are in non-decreasing order of distance and *)
(* in non-increasing order of relevance_score; they are the documents of    *)
(* the index's answer, in its order, each with its distance and with        *)
(* round(1 - distance, 3) as its score.                                     *)
C20_ResultsNearestFirst ==
    search_call.done =>
        LET results == search_call.results
            answer == search_call.answer
        IN  /\ \A i, j \in 1..Len(results) :
                  i < j => /\ results[i].distance <= results[j].distance
                           /\ results[i].relevance_score >= results[j].relevance_score
            /\ ~search_call.raised => Len(results) = Len(answer)
            /\ (~search_call.raised /\ search_call.has_distances) =>
                  \A i \in 1..Len(results) :
                      /\ results[i].distance = answer[i]
                      /\ 10 * results[i].relevance_score - (10000 - answer[i])
                            \in -5..5

(* three results whose distances differ by less than the rounding step and  *)
(* by more                                                                  *)
C20_CloseAndFarResults ==
    /\ search_call.done /\ Len(search_call.results) = 3
    /\ search_call.results[1].distance = 4
    /\ search_call.results[2].distance = 5
    /\ search_call.results[3].distance = 12000
    /\ search_call.results[1].relevance_score = 1000
    /\ search_call.results[3].relevance_score = -200

----------------------------------------------------------------------------
(* C21: search() never raises: when get_embedding or the index query        *)
(* raises, it returns an empty sequence; rag_search never raises either,    *)
(* and returns an empty list whenever the search or its own formatting      *)
(* raised, so the reasoning oracle's tool call always gets a list.          *)
C21_RetrievalFaultGivesEmptyList ==
    rag_call.done =>
        /\ ~rag_call.search_raised
        /\ (rag_call.embedding_raised \/ rag_call.query_raised)
              => rag_call.results = <<>>
        /\ ~rag_call.raised
        /\ (rag_call.embedding_raised \/ rag_call.query_raised
               \/ rag_call.format_raised) => rag_call.value = <<>>
        /\ Len(rag_call.value) \in {0, Len(rag_call.results)}

(* the query of a collection that holds documents raised, with the          *)
(* provider's embedding in hand                                             *)
C21_QueryRaisedOnStoredDocuments ==
    /\ rag_call.done /\ rag_call.query_raised /\ ~rag_call.provider_fault
    /\ collection # <<>> /\ Dimension(collection) = provider_dimension
    /\ rag_call.results = <<>> /\ rag_call.value = <<>>

----------------------------------------------------------------------------
(* C22: when the embedding provider faults, the vector get_embedding        *)
(* returns has the length the collection expects: a search made with it is  *)
(* answered by the index (its query raises only on a fault of the index),   *)
(* and add_documents raises only on a fault of the index's insert.          *)
C22_FallbackVectorFitsTheIndex ==
    /\ (rag_call.done /\ rag_call.provider_fault /\ ~rag_call.embedding_raised
           /\ rag_call.expected # 0)
          => rag_call.length = rag_call.expected
    /\ add_call.state = "raised" => add_call.cause = "index"

----------------------------------------------------------------------------
(* C23: add_documents takes the input in consecutive batches of at most     *)
(* batch_size documents, in input order (every batch but the last is of     *)
(* batch_size); the collection holds, after what it held before the call,   *)
(* exactly the batches inserted so far, so nothing of a batch whose insert  *)
(* faulted; a call that returns returns the number of input documents, all  *)
(* of them stored; a call whose embedding or insert faulted raises.         *)
RECURSIVE Flatten(_)
Flatten(ss) == IF ss = <<>> THEN <<>> ELSE Head(ss) \o Flatten(Tail(ss))

Contents(c) == [i \in 1..Len(c) |-> c[i].content]

C23_BatchesInOrderAllOrNothing ==
    add_call.state # "idle" =>
        LET call == add_call
            done == Flatten(call.batches)
        IN  /\ done = SubSeq(call.documents, 1, Len(done))
            /\ call.total_added = Len(done)
            /\ \A b \in 1..Len(call.batches) :
                  /\ Len(call.batches[b]) \in 1..call.batch_size
                  /\ b < Len(call.batches)
                        => Len(call.batches[b]) = call.batch_size
            /\ (call.state = "running" /\ call.i < Len(call.documents))
                  => Len(done) = call.i
            /\ Contents(collection) = Contents(call.before) \o done
            /\ call.state = "returned"
                  => call.total_added = Len(call.documents) /\ call.cause = "none"
            /\ call.state = "raised"
                  => call.total_added < Len(call.documents) /\ call.cause # "none"
            /\ call.cause # "none" => call.state = "raised"

(* three documents in batches of two: the first batch went in, the insert   *)
(* of the second faulted and the call raised                                *)
C23_SecondBatchFaulted ==
    /\ add_call.state = "raised" /\ add_call.cause = "index"
    /\ Len(add_call.documents) = 3 /\ add_call.batch_size = 2
    /\ add_call.total_added = 2
    /\ Len(collection) = Len(add_call.before) + 2

----------------------------------------------------------------------------
(* C24: a set removes other entries only when storing would take the dict   *)
(* past its capacity, that is when the dict is at its capacity and the key  *)
(* is not in it; a set on a key that is in a dict at its capacity removes   *)
(* no other entry.                                                          *)
C24_OverwriteAtCapacityPurgesNothing ==
    [][\A t \in Tasks :
          (SetRuns(t) /\ Purged(cache_call[t].key) # {})
             => /\ Len(cache) >= SmallMaxSize
                /\ KeyIndex(cache, cache_call[t].key) = 0]_vars

----------------------------------------------------------------------------
(* C25: when an execute() call ends successfully, cache_hits grows by 1     *)
(* and cache_misses stays if the answer it streamed came from the cache;    *)
(* cache_misses grows by 1 and cache_hits stays if the call invoked the     *)
(* reasoning oracle.                                                        *)
EndsSuccessfully(t) ==
    pc[t] = "final" /\ pc'[t] = "ended" /\ outcome'[t] = "returned"

C25_CountersTellHowServed ==
    [][\A t \in SeqTasks :
          EndsSuccessfully(t) =>
             /\ Last(yielded[t]).from_cache =>
                   /\ performance_metrics'.cache_hits
                         = performance_metrics.cache_hits + 1
                   /\ performance_metrics'.cache_misses
                         = performance_metrics.cache_misses
             /\ CountOp(t, "oracle") > 0 =>
                   /\ performance_metrics'.cache_misses
                         = performance_metrics.cache_misses + 1
                   /\ performance_metrics'.cache_hits
                         = performance_metrics.cache_hits]_vars

----------------------------------------------------------------------------
(* C26: the last item of a stream() run that was not served from the cache  *)
(* carries tools_used, equal to the set of the tool names called in the     *)
(* run, web_search among them when the fallback ran.                        *)
C26_AnswerCarriesToolsUsed ==
    \A t \in SeqTasks :
        (Answered(t) /\ ~Last(yielded[t]).from_cache) =>
            /\ Last(yielded[t]).has_tools_used
            /\ Last(yielded[t]).tools_used = SeqToSet(agent[t].tool_calls_made)
            /\ FallbackProgress(t) # {}
                  => "web_search" \in Last(yielded[t]).tools_used

----------------------------------------------------------------------------
(* C27: a run of stream() that wrote to the cache had a structured response *)
(* of the oracle with status completed, or with status input_required and   *)
(* the fallback after it; a run whose oracle left no structured response    *)
(* of the expected format does not end in a completed answer of confidence  *)
(* 1.0 and writes nothing to the cache.                                     *)
C27_OnlyValidResponsesCached ==
    \A t \in SeqTasks :
        LET r == agent[t].structured_response
        IN  /\ CacheWritten(t) =>
                  /\ r.valid
                  /\ \/ r.status = "completed"
                     \/ r.status = "input_required" /\ FallbackProgress(t) # {}
            /\ (Answered(t) /\ ~Last(yielded[t]).from_cache /\ ~r.valid) =>
                  /\ ~( Last(yielded[t]).is_task_complete
                        /\ Last(yielded[t]).confidence = 100 )
                  /\ ~CacheWritten(t)

----------------------------------------------------------------------------
(* C28: when the fallback ran and web_search returned its 'Web Search       *)
(* Unavailable' placeholder (one result, of source system, with an empty    *)
(* link), the run does not end in a completed answer: its last item is not  *)
(* the placeholder's snippet at confidence 0.6, and nothing is cached.      *)
IsPlaceholder(results) ==
    /\ Len(results) = 1
    /\ results[1].title = "Web Search Unavailable"
    /\ results[1].link = "" /\ results[1].source = "system"

C28_PlaceholderIsNotAnAnswer ==
    \A t \in SeqTasks :
        (EscalatedWith(t) /\ IsPlaceholder(agent[t].web_results)) =>
            /\ ~Last(yielded[t]).is_task_complete
            /\ ~( Last(yielded[t]).confidence = 60
                  /\ Last(yielded[t]).content
                        = <<agent[t].web_results[1].snippet>> )
            /\ ~CacheWritten(t)

----------------------------------------------------------------------------
(* C29: of two tasks with the same query text and context id, at most one   *)
(* is between the cache lookup of its stream() and the store that follows   *)
(* with the reasoning oracle invoked on its behalf; no task stores under    *)
(* the key while the other is between its lookup and its store.             *)
BetweenLookupAndStore(t) ==
    /\ pc[t] \in {"graph", "fallback"}
    /\ CountOp(t, "cache_get") > 0
    /\ ~CacheWritten(t)

Stores(t) == CountOp(t, "cache_set")' > CountOp(t, "cache_set")

C29_LookupAndStoreAtomicPerKey ==
    /\ [](\A a, b \in Tasks :
            (a # b /\ cache_key(a) = cache_key(b)
                /\ BetweenLookupAndStore(a) /\ BetweenLookupAndStore(b))
               => ~(CountOp(a, "oracle") > 0 /\ CountOp(b, "oracle") > 0))
    /\ [][\A a, b \in Tasks :
             (a # b /\ cache_key(a) = cache_key(b) /\ Stores(a))
                => ~BetweenLookupAndStore(b)]_vars

----------------------------------------------------------------------------
(* C30: total_requests counts the execute() calls made, each once, and      *)
(* successful_requests and failed_requests the calls that have ended, each  *)
(* call in exactly one of them: the calls in flight are the difference, so  *)
(* total_requests = successful_requests + failed_requests whenever none is  *)
(* in flight; cache_hits + cache_misses = successful_requests.  A step      *)
(* that ends a call adds 1 to successful_requests if the call returns and   *)
(* 1 to failed_requests if it raises, and no other step touches them (a     *)
(* call refused at validation starts and ends in one step).                 *)
InFlight == { t \in Tasks : pc[t] \notin {"idle", "ended"} }

C30_CountersAddUp ==
    /\ [](LET m == performance_metrics
          IN  /\ m.total_requests
                    = m.successful_requests + m.failed_requests
                      + Cardinality(InFlight)
              /\ InFlight = {}
                    => m.total_requests = m.successful_requests + m.failed_requests
              /\ m.cache_hits + m.cache_misses = m.successful_requests)
    /\ [][LET m == performance_metrics
              n == performance_metrics'
              ends == { t \in InFlight : pc'[t] = "ended" }
          IN  /\ n.total_requests \in {m.total_requests, m.total_requests + 1}
              /\ n.successful_requests - m.successful_requests
                    = Cardinality({ t \in ends : outcome'[t] = "returned" })
              /\ n.failed_requests - m.failed_requests
                    = Cardinality({ t \in ends : outcome'[t] # "returned" })
                      + (IF n.total_requests # m.total_requests
                            /\ Cardinality(InFlight') = Cardinality(InFlight)
                         THEN 1 ELSE 0)
              /\ Cardinality(ends) <= 1
              /\ ends # {} => n.total_requests = m.total_requests]_vars

(* no call in flight after a call that returned and a call that was         *)
(* refused or raised                                                        *)
C30_OneReturnedOneFailed ==
    /\ InFlight = {}
    /\ performance_metrics.total_requests = 2
    /\ performance_metrics.successful_requests = 1
    /\ performance_metrics.failed_requests = 1

====
